---- MODULE Spec2Model ----
(***************************************************************************)
(* Winston-Hu/IoT_SandBox.                                                 *)
(*                                                                         *)
(* Landwatch/Landwatch_003/NCNOHandler.py, the DI1 status monitor.  The    *)
(* MQTT loop thread (LoopThread) runs on_message and, for an accepted      *)
(* token, process_status; every threading.Timer has a thread of its own    *)
(* (the threads in Timers) that runs process_status('H') when it expires;  *)
(* the ThreadPoolExecutor runs the _enqueue calls.                         *)
(*                                                                         *)
(* Time is counted in units of RPC_TIMEOUT seconds.  Only three things     *)
(* take time: a running threading.Timer, a gRPC call in flight and a       *)
(* thread that waits (for a message, or in as_completed).  Every other     *)
(* statement is executed before the clock advances.                        *)
(*                                                                         *)
(* list.csv is looked at only by read_controllers, so what it holds is an  *)
(* input of each read.                                                     *)
(*                                                                         *)
(* Spec       the program with any message, any list.csv of up to two      *)
(*            controllers and a server that answers, refuses or is silent. *)
(* SpecHist   the program with the history of the clock (silent ticks,     *)
(*            deadman cycles), a long list.csv and a silent server.        *)
(* SpecPool   the program started with more controllers than the pool may  *)
(*            have workers, a master that reports once, a silent server.   *)
(* SpecIngest the program with every kind of message.                      *)
(* SpecDown   Spec with the signal that ends the program.                  *)
(* SpecLive   the program with a server that answers or refuses within the *)
(*            deadline, and fair scheduling of the cycle's steps.          *)
(*                                                                         *)
(* SKE/SKE_M300_House/jdk@10.10.9.2/main_monitor/M300_daily_report.py, the *)
(* daily report: the loop of main, with the clock in seconds.              *)
(*                                                                         *)
(* SpecReport the service started at any time of day, reports that take    *)
(*            from no time to a whole day, a wake-up late by a second.     *)
(*                                                                         *)
(* SKE/SKE_M300_House/jdk@10.10.9.2/main_monitor/monitor.py, the monitor:  *)
(* the heartbeats of the slaves, handled on the MQTT loop thread, and the  *)
(* thread of heartbeat_watchdog.                                           *)
(*                                                                         *)
(* SpecMonitor two devices that send heartbeats at intervals around the    *)
(*            tolerance or fall silent, stray messages, the watchdog.      *)
(*                                                                         *)
(* Each specification runs one program; the variables of the other two     *)
(* keep their initial values.                                              *)
(***************************************************************************)
EXTENDS Integers, Sequences, FiniteSets, TLC

\* ------------------------------------------------------------ constants
MASTER_EUI == "a84041679d5cfcf2"
TIMEOUT_SECONDS == 30
RPC_TIMEOUT == 5
WorkerCap == 10
\* hex digits of the two payload strings
PAYLOAD_LOW_HEX == <<0, 5, 0, 0, 1, 1, 14, 10, 6, 0>>
PAYLOAD_HIGH_HEX == <<0, 3, 0, 0, 0, 0>>

\* ------------------------------------------------------------ bounds
MaxFired == 1       \* Timer threads inside process_status at the same time
MaxInbox == 1       \* messages buffered while the loop thread is busy
MaxWindows == 1     \* silent windows that the history counts

\* the clock: one tick is RPC_TIMEOUT seconds
Window == TIMEOUT_SECONDS \div RPC_TIMEOUT
CallTicks == RPC_TIMEOUT \div RPC_TIMEOUT

NoTimer == 0
NoThread == -1
LoopThread == 0
\* names for the Timer objects: the running threads, the one the global
\* refers to and the one being made
Timers == 1..(MaxFired + 2)
Threads == {LoopThread} \cup Timers

Min(a, b) == IF a < b THEN a ELSE b

\* ------------------------------------------------------------ list.csv
\* str.strip() on the cells that occur in the files below
Strip(s) ==
    CASE s = " controller " -> "controller"
      [] s = " d2" -> "d2"
      [] OTHER -> s

\* what list.csv can hold when it is read
Row(eui) == <<eui, "controller">>

FileOne == <<Row("d1")>>
FileTwo == <<Row("d1"), <<"s1", "sensor">>, <<" d2", " controller ">>, <<"d9">>>>
FileDup == <<Row("d1"), Row("d1")>>
FileNone == <<<<"s1", "sensor">>, <<"controller">>>>
Unreadable == <<<<"?">>, <<"open() raises">>>>
\* so many controllers that one worker needs a whole window for one cycle
\* when every call runs into its deadline
FileSlow == [i \in 1..(Window \div CallTicks) |-> Row("d1")]

\* one controller more than the pool can ever have workers
FileBig == [i \in 1..(WorkerCap + 1) |-> Row("d1")]

StartFiles == {FileOne, FileTwo}
Files == {FileOne, FileTwo, FileDup, FileNone, Unreadable}
SlowFiles == {FileSlow, FileNone}
BigFiles == {FileBig, FileNone}
FewFiles == {FileOne, FileNone}
LiveFiles == {FileTwo, FileNone}

RECURSIVE read_controllers(_)
read_controllers(rows) ==
    IF rows = <<>> THEN <<>>
    ELSE LET row == Head(rows)
             rest == read_controllers(Tail(rows))
         IN IF Len(row) >= 2 /\ Strip(row[2]) = "controller"
            THEN <<Strip(row[1])>> \o rest
            ELSE rest

\* bytes.fromhex
RECURSIVE FromHex(_)
FromHex(h) ==
    IF Len(h) < 2 THEN <<>>
    ELSE <<16 * h[1] + h[2]>> \o FromHex(SubSeq(h, 3, Len(h)))

\* ------------------------------------------------------------ messages
UpMsg(eui, n, di1) ==
    [parts |-> 6, json |-> TRUE, eventType |-> "up", devEui |-> eui,
     hasObject |-> TRUE, lenObj |-> n, di1 |-> di1]

Msgs ==
    { UpMsg(MASTER_EUI, 12, "L"),
      UpMsg(MASTER_EUI, 12, "H"),
      UpMsg(MASTER_EUI, 12, "X"),
      UpMsg("0000000000000001", 12, "L"),
      [UpMsg(MASTER_EUI, 12, "L") EXCEPT !.json = FALSE] }

\* more of what the broker can deliver on application/+/device/+/event/+
AllMsgs ==
    Msgs \cup
    { [UpMsg(MASTER_EUI, 12, "L") EXCEPT !.eventType = "join"],
      [UpMsg(MASTER_EUI, 12, "L") EXCEPT !.hasObject = FALSE],
      [UpMsg(MASTER_EUI, 12, "L") EXCEPT !.parts = 5],
      UpMsg(MASTER_EUI, 11, "L") }

\* the uplink of the master that reports DI1 = L
LowMsgs == {UpMsg(MASTER_EUI, 12, "L")}

\* a filter without the comparison with MASTER_EUI
FilterAnySource(m) ==
    IF m.parts < 6 THEN "raise"
    ELSE IF ~m.json THEN "raise"
    ELSE IF m.eventType # "up" THEN "drop"
    ELSE IF ~m.hasObject THEN "raise"
    ELSE IF m.lenObj # 12 THEN "drop"
    ELSE IF m.di1 \in {"L", "H"} THEN "accept"
    ELSE "drop"

\* a filter that knows the token of the alarm only
FilterLowOnly(m) ==
    IF m.parts < 6 THEN "raise"
    ELSE IF ~m.json THEN "raise"
    ELSE IF ~(m.eventType = "up" /\ m.devEui = MASTER_EUI) THEN "drop"
    ELSE IF ~m.hasObject THEN "raise"
    ELSE IF m.lenObj # 12 THEN "drop"
    ELSE IF m.di1 = "L" THEN "accept"
    ELSE "drop"

\* on_message up to the call of process_status: "raise" is an exception that
\* the handler's own except clause catches, "drop" falls through the ifs.
Filter(m) ==
    IF m.parts < 6 THEN "raise"
    ELSE IF ~m.json THEN "raise"
    ELSE IF ~(m.eventType = "up" /\ m.devEui = MASTER_EUI) THEN "drop"
    ELSE IF ~m.hasObject THEN "raise"
    ELSE IF m.lenObj # 12 THEN "drop"
    ELSE IF m.di1 \in {"L", "H"} THEN "accept"
    ELSE "drop"

\* ------------------------------------------------------------ state
VARIABLES
    controllers_list,  \* read once at import
    inbox,             \* messages the broker delivered, not yet handled
    lock,              \* holder of _lock
    di_timeout_timer,  \* _di_timeout_timer
    last_status,       \* _last_status
    timer,             \* the Timer objects: state and ticks left
    pc, status, ctrls, futs,   \* per thread: position, argument, locals
    workQ,             \* the executor's work queue
    owed,              \* triggers whose dispatch cycle has not begun
    silent, tokSeen, gap, dm   \* history of the clock, kept by SpecHist

hist == <<silent, tokSeen, gap, dm>>

\* the variables of NCNOHandler.py
handler == <<controllers_list, inbox, lock, di_timeout_timer, last_status, timer, pc,
             status, ctrls, futs, workQ, owed, hist>>

\* M300_daily_report.py: one process, the loop of main
VARIABLES
    rnow,          \* datetime.now(), in seconds since 00:00:00 of the first day
    rpc,           \* position in the loop of main
    trigger_dt,    \* trigger_dt
    generated,     \* the reports written: the trigger and the time of the run
    rdur           \* how long the last report took

report == <<rnow, rpc, trigger_dt, generated, rdur>>

\* monitor.py: the MQTT loop thread, which runs on_message, and the thread of
\* heartbeat_watchdog
VARIABLES
    mclock,               \* time.time(), in seconds since the monitor started
    due,                  \* per device, when its next heartbeat arrives
    heartbeat_history,    \* heartbeat_history
    heartbeat_last_seen,  \* heartbeat_last_seen, its items in insertion order
    wpc,                  \* position of heartbeat_watchdog
    wnow,                 \* its local now
    snapshot,             \* its list(heartbeat_last_seen.items())
    wi,                   \* the item of the list the for loop is at
    wnext,                \* when its time.sleep returns
    published,            \* the macs its current pass has published for
    lastEv,               \* what the handling of the last message did
    abn,                  \* the abnormal intervals reported so far
    twice,                \* an abnormal interval was reported a second time
    fresh,                \* per mac, its heartbeats since its last anomaly report
    beats, passes         \* heartbeats handled, passes completed

monitor == <<mclock, due, heartbeat_history, heartbeat_last_seen, wpc, wnow, snapshot,
             wi, wnext, published, lastEv, abn, twice, fresh, beats, passes>>

\* the variables of the other programs of the repository
others == <<report, monitor>>

vars == <<handler, others>>

MAX_WORKERS == Min(Len(controllers_list), WorkerCap)

\* the count of silent ticks stops one past the last window it covers
SilentCap == MaxWindows * Window + 1

Idle(th) == IF th = LoopThread THEN "idle" ELSE "off"

Armed == {t \in Timers : timer[t].st = "armed"}
Fired == {t \in Timers : timer[t].st = "fired"}

Calls == UNION {{<<th, i>> : i \in DOMAIN futs[th]} : th \in Threads}
Running == {c \in Calls : futs[c[1]][c[2]].st = "running"}

\* the module level of the script, run with list.csv holding f
Boot(f) ==
    /\ controllers_list = read_controllers(f)
    /\ inbox = <<>>
    /\ lock = NoThread
    /\ di_timeout_timer = NoTimer
    /\ last_status = "None"
    /\ timer = [t \in Timers |-> [st |-> "free", rem |-> 0]]
    /\ pc = [th \in Threads |-> Idle(th)]
    /\ status = [th \in Threads |-> "-"]
    /\ ctrls = [th \in Threads |-> <<>>]
    /\ futs = [th \in Threads |-> <<>>]
    /\ workQ = <<>>
    /\ owed = 0
    /\ silent = 0
    /\ tokSeen = FALSE
    /\ gap = FALSE
    /\ dm = 0

\* the other programs of the repository are not running
ReportOff ==
    /\ rnow = 0
    /\ rpc = "off"
    /\ trigger_dt = 0
    /\ generated = <<>>
    /\ rdur = 0

NoEv == [kind |-> "IGNORED", mac |-> "", verdict |-> "", d1 |-> 0, d2 |-> 0,
         h |-> <<>>, email |-> FALSE]

MonitorOff ==
    /\ mclock = 0
    /\ due = <<>>
    /\ heartbeat_history = <<>>
    /\ heartbeat_last_seen = <<>>
    /\ wpc = "off"
    /\ wnow = 0
    /\ snapshot = <<>>
    /\ wi = 1
    /\ wnext = 0
    /\ published = {}
    /\ lastEv = NoEv
    /\ abn = {}
    /\ twice = FALSE
    /\ fresh = <<>>
    /\ beats = 0
    /\ passes = 0

OthersOff == ReportOff /\ MonitorOff

Init == (\E f \in StartFiles : Boot(f)) /\ OthersOff

\* ------------------------------------------------------------ environment
\* the broker delivers a message to the socket of the loop thread
Deliver(m) ==
    /\ Len(inbox) < MaxInbox
    /\ inbox' = Append(inbox, m)
    /\ UNCHANGED <<last_status, controllers_list, lock, di_timeout_timer, timer, pc,
                   status, ctrls, futs, workQ, owed>>

Arrive(m) == Deliver(m) /\ UNCHANGED <<hist, others>>

\* the same, and an accepted status token restarts the count of silent ticks
ArriveH(m) ==
    /\ Deliver(m)
    /\ IF Filter(m) = "accept"
       THEN silent' = 0 /\ tokSeen' = TRUE /\ dm' = 0
       ELSE UNCHANGED <<silent, tokSeen, dm>>
    /\ UNCHANGED <<gap, others>>

\* the only message of a master that reports once and is lost
ArriveOnce(m) ==
    /\ ~tokSeen
    /\ Deliver(m)
    /\ tokSeen' = TRUE
    /\ UNCHANGED <<silent, gap, dm, others>>

\* ------------------------------------------------------------ on_message
\* an on_message that does not wait for the cycle of the message before
on_messageReentrant ==
    /\ inbox # <<>>
    /\ inbox' = Tail(inbox)
    /\ IF Filter(Head(inbox)) = "accept"
       THEN /\ pc' = [pc EXCEPT ![LoopThread] = "lock"]
            /\ status' = [status EXCEPT ![LoopThread] = Head(inbox).di1]
            /\ owed' = owed + 1
       ELSE UNCHANGED <<pc, status, owed>>
    /\ UNCHANGED <<last_status, controllers_list, lock, di_timeout_timer, timer,
                   ctrls, futs, workQ, hist, others>>

on_message ==
    /\ pc[LoopThread] = "idle"
    /\ inbox # <<>>
    /\ inbox' = Tail(inbox)
    /\ IF Filter(Head(inbox)) = "accept"
       THEN /\ pc' = [pc EXCEPT ![LoopThread] = "lock"]
            /\ status' = [status EXCEPT ![LoopThread] = Head(inbox).di1]
            /\ owed' = owed + 1
       ELSE UNCHANGED <<pc, status, owed>>
    /\ UNCHANGED <<last_status, controllers_list, lock, di_timeout_timer, timer,
                   ctrls, futs, workQ, hist, others>>

\* ------------------------------------------------------------ process_status
\* the end of a process_status call: the loop thread returns to the broker
\* loop, a Timer thread ends and its Timer object is garbage unless the
\* global still refers to it
Finish(th) ==
    /\ pc' = [pc EXCEPT ![th] = Idle(th)]
    /\ status' = [status EXCEPT ![th] = "-"]
    /\ ctrls' = [ctrls EXCEPT ![th] = <<>>]
    /\ futs' = [futs EXCEPT ![th] = <<>>]
    /\ timer' = IF th = LoopThread THEN timer
                ELSE [timer EXCEPT ![th].st =
                        IF di_timeout_timer = th THEN "done" ELSE "free"]

\* with _lock:
CanAcquireNoLock == TRUE

CanAcquire == lock = NoThread

\* a process_status that waits until no other dispatch cycle is in flight
AcquireSerial(th) ==
    /\ pc[th] = "lock"
    /\ CanAcquire
    /\ \A o \in Threads \ {th} : pc[o] \notin {"read", "submit", "wait"}
    /\ lock' = th
    /\ pc' = [pc EXCEPT ![th] = "cancel"]
    /\ UNCHANGED <<last_status, controllers_list, inbox, di_timeout_timer, timer,
                   status, ctrls, futs, workQ, owed, hist, others>>

Acquire(th) ==
    /\ pc[th] = "lock"
    /\ CanAcquire
    /\ lock' = th
    /\ pc' = [pc EXCEPT ![th] = "cancel"]
    /\ UNCHANGED <<last_status, controllers_list, inbox, di_timeout_timer, timer,
                   status, ctrls, futs, workQ, owed, hist, others>>

\* Timer.cancel(): stops a timer that has not fired yet, no effect otherwise
CancelTimer(tm, t) ==
    IF t # NoTimer /\ tm[t].st \in {"created", "armed"}
    THEN [tm EXCEPT ![t] = [st |-> "cancelled", rem |-> 0]]
    ELSE tm

\* the cancel step with the check that lines 149-151 keep commented out:
\* if status == _last_status: return
CancelDedupe(th) ==
    /\ pc[th] = "cancel"
    /\ IF status[th] = last_status
       THEN /\ lock' = NoThread
            /\ Finish(th)
            /\ UNCHANGED last_status
       ELSE /\ last_status' = status[th]
            /\ timer' = CancelTimer(timer, di_timeout_timer)
            /\ pc' = [pc EXCEPT ![th] = "new"]
            /\ UNCHANGED <<lock, status, ctrls, futs>>
    /\ UNCHANGED <<controllers_list, inbox, di_timeout_timer, workQ, owed, hist, others>>

Cancel(th) ==
    /\ pc[th] = "cancel"
    /\ timer' = CancelTimer(timer, di_timeout_timer)
    /\ pc' = [pc EXCEPT ![th] = "new"]
    /\ UNCHANGED <<last_status, controllers_list, inbox, lock, di_timeout_timer,
                   status, ctrls, futs, workQ, owed, hist, others>>

\* names of Timer objects that nothing refers to once the global is replaced
Unused ==
    {t \in Timers : timer[t].st = "free"
                    \/ (t = di_timeout_timer /\ timer[t].st \in {"cancelled", "done"})}

FreshTimer == CHOOSE t \in Unused : \A u \in Unused : t <= u

\* _di_timeout_timer = threading.Timer(TIMEOUT_SECONDS, lambda: process_status('H'))
NewTimer(th) ==
    /\ pc[th] = "new"
    /\ Unused # {}
    /\ di_timeout_timer' = FreshTimer
    /\ timer' = [t \in Timers |->
                   IF t = FreshTimer THEN [st |-> "created", rem |-> 0]
                   ELSE IF t \in Unused THEN [st |-> "free", rem |-> 0]
                   ELSE timer[t]]
    /\ pc' = [pc EXCEPT ![th] = "start"]
    /\ UNCHANGED <<last_status, controllers_list, inbox, lock, status, ctrls, futs,
                   workQ, owed, hist, others>>

\* a Timer that is stored and never started
StartTimerNotStarted(th) ==
    /\ pc[th] = "start"
    /\ pc' = [pc EXCEPT ![th] = "unlock"]
    /\ UNCHANGED <<last_status, controllers_list, inbox, lock, di_timeout_timer, timer,
                   status, ctrls, futs, workQ, owed, hist, others>>

\* _di_timeout_timer.start(): a cancelled Timer's thread ends at once
StartTimer(th) ==
    /\ pc[th] = "start"
    /\ timer' = IF timer[di_timeout_timer].st = "created"
                THEN [timer EXCEPT ![di_timeout_timer] =
                        [st |-> "armed", rem |-> Window]]
                ELSE timer
    /\ pc' = [pc EXCEPT ![th] = "unlock"]
    /\ UNCHANGED <<last_status, controllers_list, inbox, lock, di_timeout_timer,
                   status, ctrls, futs, workQ, owed, hist, others>>

\* a with block that reaches to the end of process_status
ReleaseHeld(th) ==
    /\ pc[th] = "unlock"
    /\ pc' = [pc EXCEPT ![th] = "read"]
    /\ UNCHANGED <<last_status, controllers_list, inbox, lock, di_timeout_timer, timer,
                   status, ctrls, futs, workQ, owed, hist, others>>

\* the end of the with block
Release(th) ==
    /\ pc[th] = "unlock"
    /\ lock' = NoThread
    /\ pc' = [pc EXCEPT ![th] = "read"]
    /\ UNCHANGED <<last_status, controllers_list, inbox, di_timeout_timer, timer,
                   status, ctrls, futs, workQ, owed, hist, others>>

DispatchesAlways(list) == TRUE

\* what process_status does with the list it read: TRUE when it goes on to
\* send_downlink_parallel
Dispatches(list) == list # <<>>

\* a cycle that uses the list read at import instead of reading list.csv
ReadFleetCached(th, f) ==
    /\ pc[th] = "read"
    /\ owed' = owed - 1
    /\ ctrls' = [ctrls EXCEPT ![th] = controllers_list]
    /\ pc' = [pc EXCEPT ![th] = IF Dispatches(controllers_list) THEN "submit" ELSE "skip"]
    /\ UNCHANGED <<last_status, controllers_list, inbox, lock, di_timeout_timer, timer,
                   status, futs, workQ, hist, others>>

\* ctrls = read_controllers(CSV_FILE), where f is what list.csv holds at that
\* moment; open() raises when the file is missing
ReadFleet(th, f) ==
    /\ pc[th] = "read"
    /\ owed' = owed - 1
    /\ IF f = Unreadable
       THEN pc' = [pc EXCEPT ![th] = "raised"] /\ UNCHANGED ctrls
       ELSE /\ ctrls' = [ctrls EXCEPT ![th] = read_controllers(f)]
            /\ pc' = [pc EXCEPT ![th] =
                        IF Dispatches(read_controllers(f)) THEN "submit" ELSE "skip"]
    /\ UNCHANGED <<last_status, controllers_list, inbox, lock, di_timeout_timer, timer,
                   status, futs, workQ, hist, others>>

\* logger.error('No controllers found, skip downlink'); return
\* and the way of an exception out of process_status: on_message catches and
\* logs it, in a Timer thread it ends the thread
Abort(th) ==
    /\ pc[th] \in {"skip", "raised"}
    /\ Finish(th)
    /\ UNCHANGED <<last_status, controllers_list, inbox, lock, di_timeout_timer, workQ,
                   owed, hist, others>>

PayloadHexSwapped(s) == IF s = "L" THEN PAYLOAD_HIGH_HEX ELSE PAYLOAD_LOW_HEX

\* payload = PAYLOAD_LOW_HEX if status == 'L' else PAYLOAD_HIGH_HEX
PayloadHex(s) == IF s = "L" THEN PAYLOAD_LOW_HEX ELSE PAYLOAD_HIGH_HEX

\* ------------------------------------------------------------ send_downlink_parallel
\* one _executor.submit(_enqueue, eui, payload) of the dict comprehension
Submit(th) ==
    /\ pc[th] = "submit"
    /\ LET i == Len(futs[th]) + 1
       IN /\ futs' = [futs EXCEPT ![th] = Append(@,
                        [eui |-> ctrls[th][i],
                         data |-> FromHex(PayloadHex(status[th])),
                         st |-> "queued", rem |-> 0, n |-> 0, rec |-> "none"])]
          /\ workQ' = Append(workQ, <<th, i>>)
          /\ pc' = [pc EXCEPT ![th] = IF i = Len(ctrls[th]) THEN "wait" ELSE "submit"]
    /\ UNCHANGED <<last_status, controllers_list, inbox, lock, di_timeout_timer, timer,
                   status, ctrls, owed, hist, others>>

\* a pool that starts a thread for every work item
StartCallUnbounded ==
    /\ workQ # <<>>
    /\ LET th == Head(workQ)[1]
           i == Head(workQ)[2]
       IN futs' = [futs EXCEPT ![th][i] =
                     [@ EXCEPT !.st = "running", !.rem = CallTicks, !.n = @ + 1]]
    /\ workQ' = Tail(workQ)
    /\ UNCHANGED <<last_status, controllers_list, inbox, lock, di_timeout_timer, timer,
                   pc, status, ctrls, owed, hist, others>>

\* a pool worker takes the oldest work item and calls _enqueue
StartCall ==
    /\ workQ # <<>>
    /\ Cardinality(Running) < MAX_WORKERS
    /\ LET th == Head(workQ)[1]
           i == Head(workQ)[2]
       IN futs' = [futs EXCEPT ![th][i] =
                     [@ EXCEPT !.st = "running", !.rem = CallTicks, !.n = @ + 1]]
    /\ workQ' = Tail(workQ)
    /\ UNCHANGED <<last_status, controllers_list, inbox, lock, di_timeout_timer, timer,
                   pc, status, ctrls, owed, hist, others>>

\* a call that is queued again when it fails
CompleteCallRetry(th, i, res) ==
    /\ <<th, i>> \in Running
    /\ futs[th][i].rem = 0 => res = "error"
    /\ IF res = "error"
       THEN /\ futs' = [futs EXCEPT ![th][i] = [@ EXCEPT !.st = "queued", !.rem = 0]]
            /\ workQ' = Append(workQ, <<th, i>>)
       ELSE /\ futs' = [futs EXCEPT ![th][i] = [@ EXCEPT !.st = res, !.rem = 0]]
            /\ UNCHANGED workQ
    /\ UNCHANGED <<last_status, controllers_list, inbox, lock, di_timeout_timer,
                   timer, pc, status, ctrls, owed, hist, others>>

\* a call made without timeout=RPC_TIMEOUT: it ends when the server answers
CompleteCallNoDeadline(th, i, res) ==
    /\ <<th, i>> \in Running
    /\ futs[th][i].rem > 0
    /\ futs' = [futs EXCEPT ![th][i] = [@ EXCEPT !.st = res, !.rem = 0]]
    /\ UNCHANGED <<last_status, controllers_list, inbox, lock, di_timeout_timer, timer,
                   pc, status, ctrls, workQ, owed, hist, others>>

\* _client.Enqueue.with_call(..., timeout=RPC_TIMEOUT) returns or raises; at
\* the deadline it raises
CompleteCall(th, i, res) ==
    /\ <<th, i>> \in Running
    /\ futs[th][i].rem = 0 => res = "error"
    /\ futs' = [futs EXCEPT ![th][i] = [@ EXCEPT !.st = res, !.rem = 0]]
    /\ UNCHANGED <<last_status, controllers_list, inbox, lock, di_timeout_timer, timer,
                   pc, status, ctrls, workQ, owed, hist, others>>

\* the call gets no answer: it ends with DEADLINE_EXCEEDED after RPC_TIMEOUT
Timeout(th, i) ==
    /\ <<th, i>> \in Running
    /\ futs[th][i].rem = 0
    /\ CompleteCall(th, i, "error")

\* a loop without the except clauses: future.result() raises out of it
RecordRaises(th, i) ==
    /\ pc[th] = "wait"
    /\ i \in 1..Len(futs[th])
    /\ futs[th][i].st \in {"ack", "error"}
    /\ futs[th][i].rec = "none"
    /\ IF futs[th][i].st = "ack"
       THEN futs' = [futs EXCEPT ![th][i].rec = "success"] /\ UNCHANGED pc
       ELSE pc' = [pc EXCEPT ![th] = "raised"] /\ UNCHANGED futs
    /\ UNCHANGED <<last_status, controllers_list, inbox, lock, di_timeout_timer,
                   timer, status, ctrls, workQ, owed, hist, others>>

\* one pass of the as_completed loop: the log line of a finished future
Record(th, i) ==
    /\ pc[th] = "wait"
    /\ i \in 1..Len(futs[th])
    /\ futs[th][i].st \in {"ack", "error"}
    /\ futs[th][i].rec = "none"
    /\ futs' = [futs EXCEPT ![th][i].rec =
                  IF futs[th][i].st = "ack" THEN "success" ELSE "failure"]
    /\ UNCHANGED <<last_status, controllers_list, inbox, lock, di_timeout_timer, timer,
                   pc, status, ctrls, workQ, owed, hist, others>>

CycleDone(th) ==
    /\ pc[th] = "wait"
    /\ \A i \in 1..Len(futs[th]) : futs[th][i].rec # "none"

\* as_completed is exhausted: send_downlink_parallel and process_status return
Return(th) ==
    /\ CycleDone(th)
    /\ Finish(th)
    /\ UNCHANGED <<last_status, controllers_list, inbox, lock, di_timeout_timer,
                   workQ, owed, hist, others>>

\* ------------------------------------------------------------ threading.Timer
\* a Timer made with lambda: process_status('L')
ExpireLow(t) ==
    /\ timer[t].st = "armed"
    /\ timer[t].rem = 0
    /\ Cardinality(Fired) < MaxFired
    /\ timer' = [timer EXCEPT ![t].st = "fired"]
    /\ pc' = [pc EXCEPT ![t] = "lock"]
    /\ status' = [status EXCEPT ![t] = "L"]
    /\ owed' = owed + 1
    /\ UNCHANGED <<last_status, controllers_list, inbox, lock, di_timeout_timer,
                   ctrls, futs, workQ>>

\* the Timer's thread wakes up un-cancelled and calls process_status('H')
Expire(t) ==
    /\ timer[t].st = "armed"
    /\ timer[t].rem = 0
    /\ Cardinality(Fired) < MaxFired
    /\ timer' = [timer EXCEPT ![t].st = "fired"]
    /\ pc' = [pc EXCEPT ![t] = "lock"]
    /\ status' = [status EXCEPT ![t] = "H"]
    /\ owed' = owed + 1
    /\ UNCHANGED <<last_status, controllers_list, inbox, lock, di_timeout_timer,
                   ctrls, futs, workQ>>

Fire(t) == Expire(t) /\ UNCHANGED <<hist, others>>

FireH(t) ==
    /\ Expire(t)
    /\ dm' = Min(dm + 1, MaxWindows + 1)
    /\ UNCHANGED <<silent, tokSeen, gap, others>>

\* ------------------------------------------------------------ main
\* SIGINT or SIGTERM: Python runs _signal_handler on the main thread, which is
\* the loop thread, between two of its bytecodes or in place of a blocking
\* call.  The handler cancels the Timer the global refers to, without _lock,
\* and disconnects; sys.exit(0) then unwinds the main thread (a with _lock
\* block on its way releases the lock) and the interpreter begins to exit,
\* while the Timer threads and the pool's workers are still running.
signal_handler ==
    /\ pc[LoopThread] # "exit"
    /\ timer' = CancelTimer(timer, di_timeout_timer)
    /\ lock' = IF lock = LoopThread THEN NoThread ELSE lock
    /\ pc' = [pc EXCEPT ![LoopThread] = "exit"]
    /\ UNCHANGED <<last_status, controllers_list, inbox, di_timeout_timer, status,
                   ctrls, futs, workQ, owed, hist, others>>

\* ------------------------------------------------------------ the clock
\* nothing is left to do but wait
Quiescent ==
    /\ \A th \in Threads : pc[th] \in {"idle", "off", "wait"}
    /\ pc[LoopThread] = "idle" => inbox = <<>>
    /\ \A th \in Threads : pc[th] = "wait" =>
          /\ \A i \in 1..Len(futs[th]) :
                futs[th][i].st \in {"ack", "error"} => futs[th][i].rec # "none"
          /\ ~CycleDone(th)
    /\ workQ = <<>> \/ Cardinality(Running) >= MAX_WORKERS
    /\ \A t \in Armed : timer[t].rem > 0
    /\ \A c \in Running : futs[c[1]][c[2]].rem > 0

Advance ==
    /\ Quiescent
    /\ timer' = [t \in Timers |->
                   IF timer[t].st = "armed"
                   THEN [timer[t] EXCEPT !.rem = @ - 1] ELSE timer[t]]
    /\ futs' = [th \in Threads |->
                  [i \in 1..Len(futs[th]) |->
                     IF futs[th][i].st = "running"
                     THEN [futs[th][i] EXCEPT !.rem = @ - 1] ELSE futs[th][i]]]
    /\ UNCHANGED <<last_status, controllers_list, inbox, lock, di_timeout_timer, pc,
                   status, ctrls, workQ, owed>>

Tick == Advance /\ UNCHANGED <<hist, others>>

TickH ==
    /\ Advance
    /\ silent' = Min(silent + 1, SilentCap)
    /\ gap' = (gap \/ (tokSeen /\ silent + 1 >= Window))
    /\ UNCHANGED <<tokSeen, dm, others>>

\* ------------------------------------------------------------ specification
\* the steps of the program's own threads
Program ==
    \/ on_message
    \/ \E th \in Threads : Acquire(th)
    \/ \E th \in Threads : Cancel(th)
    \/ \E th \in Threads : NewTimer(th)
    \/ \E th \in Threads : StartTimer(th)
    \/ \E th \in Threads : Release(th)
    \/ \E th \in Threads : Abort(th)
    \/ \E th \in Threads : Submit(th)
    \/ StartCall
    \/ \E th \in Threads : \E i \in DOMAIN futs[th] : Record(th, i)
    \/ \E th \in Threads : Return(th)

Next ==
    \/ \E m \in Msgs : Arrive(m)
    \/ \E th \in Threads : \E f \in Files : ReadFleet(th, f)
    \/ \E th \in Threads : \E i \in DOMAIN futs[th] : \E res \in {"ack", "error"} :
          CompleteCall(th, i, res)
    \/ Program
    \/ \E t \in Timers : Fire(t)
    \/ Tick

Spec == Init /\ [][Next]_vars

\* the same program with the history of the clock, a master that reports
\* DI1 = L, a list.csv that has grown long since start-up and a server that
\* answers no call
NextHist ==
    \/ \E m \in LowMsgs : ArriveH(m)
    \/ \E th \in Threads : \E f \in SlowFiles : ReadFleet(th, f)
    \/ \E th \in Threads : \E i \in DOMAIN futs[th] : Timeout(th, i)
    \/ Program
    \/ \E t \in Timers : FireH(t)
    \/ TickH

\* start-up found one controller in list.csv: the pool has one worker
InitHist == Init /\ controllers_list = read_controllers(FileOne)

SpecHist == InitHist /\ [][NextHist]_vars

\* the same program started with a list.csv of more controllers than the
\* pool may have workers, a master that reports DI1 = L once and is lost, and
\* a server that answers no call
NextPool ==
    \/ \E m \in LowMsgs : ArriveOnce(m)
    \/ \E th \in Threads : \E f \in BigFiles : ReadFleet(th, f)
    \/ \E th \in Threads : \E i \in DOMAIN futs[th] : Timeout(th, i)
    \/ Program
    \/ \E t \in Timers : Fire(t)
    \/ Tick

InitPool == Boot(FileBig) /\ OthersOff

\* the same program with every kind of message and a list.csv of at most one
\* controller
NextIngest ==
    \/ \E m \in AllMsgs : Arrive(m)
    \/ \E th \in Threads : \E f \in FewFiles : ReadFleet(th, f)
    \/ \E th \in Threads : \E i \in DOMAIN futs[th] : \E res \in {"ack", "error"} :
          CompleteCall(th, i, res)
    \/ Program
    \/ \E t \in Timers : Fire(t)
    \/ Tick

SpecIngest == Init /\ [][NextIngest]_vars

\* the program with a master that reports DI1 = L and a list.csv of two
\* controllers or none, under a scheduler that lets every thread that can take a
\* step take it in the end, and a gRPC layer that ends every call
NextLive ==
    \/ \E m \in LowMsgs : Arrive(m)
    \/ \E th \in Threads : \E f \in LiveFiles : ReadFleet(th, f)
    \/ \E th \in Threads : \E i \in DOMAIN futs[th] : \E res \in {"ack", "error"} :
          CompleteCall(th, i, res)
    \/ Program
    \/ \E t \in Timers : Fire(t)
    \/ Tick

Fairness ==
    /\ WF_vars(StartCall)
    /\ \A th \in Threads :
          /\ WF_vars(Submit(th))
          /\ WF_vars(\E i \in DOMAIN futs[th] : \E res \in {"ack", "error"} :
                        CompleteCall(th, i, res))
          /\ WF_vars(\E i \in DOMAIN futs[th] : Record(th, i))
          /\ WF_vars(Return(th))

SpecLive == Init /\ [][NextLive]_vars /\ Fairness

\* the same program with a signal that ends it
NextDown ==
    \/ Next
    \/ signal_handler

SpecDown == Init /\ [][NextDown]_vars

SpecPool == InitPool /\ [][NextPool]_vars

TypeOK ==
    /\ lock \in Threads \cup {NoThread}
    /\ di_timeout_timer \in Timers \cup {NoTimer}
    /\ \A t \in Timers :
          /\ timer[t].st \in {"free", "created", "armed", "cancelled", "fired", "done"}
          /\ timer[t].rem \in 0..Window
    /\ owed \in 0..(MaxFired + 1)
    /\ silent \in 0..SilentCap
    /\ dm \in 0..(MaxWindows + 1)

\* ------------------------------------------------------------ properties
\* positions of process_status before the list is read
BeforeRead == {"lock", "cancel", "new", "start", "unlock", "read"}
InCycle == {"submit", "wait"}

P_low == <<5, 0, 17, 234, 96>>
P_high == <<3, 0, 0>>

\* C1: under every interleaving of the process_status calls of the loop
\* thread and of the Timer threads, at most one Timer is armed (started, not
\* cancelled, not fired) in every state.
C1_AtMostOneArmed == Cardinality(Armed) <= 1

\* the loop thread has armed its Timer inside the lock while an expired
\* Timer's thread waits for the lock
C1_Witness ==
    /\ pc[LoopThread] = "unlock"
    /\ lock = LoopThread
    /\ \E t \in Timers : timer[t].st = "fired" /\ pc[t] = "lock"
    /\ Cardinality(Armed) = 1

\* C2: there is no idle state without a running Timer: whenever no thread is
\* inside process_status, the start-up state included, a deadman Timer is armed.
C2_NoIdleStateWithoutTimer ==
    (pc[LoopThread] = "idle" /\ Fired = {}) => Armed # {}

\* C3: every accepted status token and every un-cancelled Timer expiry starts
\* exactly one dispatch cycle: the triggers that have not been answered by a
\* read of the list are exactly the process_status calls that have not
\* reached their read yet.
C3_OneCyclePerTrigger ==
    owed = Cardinality({th \in Threads : pc[th] \in BeforeRead})

\* a cycle started by a token and a cycle started by an expiry, both begun
C3_Witness ==
    /\ owed = 0
    /\ pc[LoopThread] = "wait"
    /\ \E t \in Timers : pc[t] = "wait"

\* C4: a cycle that read M members makes exactly M enqueue calls, one for each
\* entry of the list (an entry listed twice is called twice), whatever the
\* outcomes; no call is made a second time.
C4_OneCallPerMember ==
    \A th \in Threads :
       /\ Len(futs[th]) <= Len(ctrls[th])
       /\ \A i \in DOMAIN futs[th] :
             /\ futs[th][i].eui = ctrls[th][i]
             /\ futs[th][i].n = (IF futs[th][i].st = "queued" THEN 0 ELSE 1)
             /\ Cardinality({k \in DOMAIN workQ : workQ[k] = <<th, i>>})
                   = (IF futs[th][i].st = "queued" THEN 1 ELSE 0)
       /\ CycleDone(th) =>
             /\ Len(futs[th]) = Len(ctrls[th])
             /\ \A i \in DOMAIN futs[th] : futs[th][i].n = 1

\* a finished cycle over a list that names d1 twice, one call failed
C4_Witness ==
    \E th \in Threads :
       /\ CycleDone(th)
       /\ ctrls[th] = <<"d1", "d1">>
       /\ futs[th][1].rec = "failure"
       /\ futs[th][2].rec = "success"

\* C5: while status tokens keep arriving less than a window apart, no Timer
\* expires: a Timer thread runs only after a silence of a whole window.
C5_NoDeadmanWhileTokensArrive == (tokSeen /\ Fired # {}) => gap

\* C6: after k consecutive windows without a status token, exactly k deadman
\* cycles have been triggered (k up to MaxWindows, read when every thread
\* is waiting).
C6_OneDeadmanPerSilentWindow ==
    (Quiescent /\ silent <= MaxWindows * Window) => dm = silent \div Window

\* C7: an expired Timer runs process_status as an accepted 'H' does: its
\* thread arms a new Timer for a whole window and dispatches the high payload,
\* and when it leaves the lock the deadman is armed again (or is being
\* re-armed by another thread).
C7_ExpiryActsAsHigh ==
    \A t \in Timers : timer[t].st = "fired" =>
       /\ status[t] = "H"
       /\ pc[t] = "unlock" =>
             /\ di_timeout_timer # t
             /\ timer[di_timeout_timer] = [st |-> "armed", rem |-> Window]
       /\ \A i \in DOMAIN futs[t] : futs[t][i].data = P_high
       /\ pc[t] \in {"read", "skip", "raised", "submit", "wait"} =>
             (Armed # {} \/ lock # NoThread)

\* an expired Timer's thread waits for its two high-payload calls while the
\* Timer it armed is running
C7_Witness ==
    \E t \in Timers :
       /\ timer[t].st = "fired"
       /\ pc[t] = "wait"
       /\ Len(futs[t]) = 2
       /\ timer[di_timeout_timer].st = "armed"
       /\ timer[di_timeout_timer].rem = Window - 1

\* C8: a cycle for token t over a non-empty list F submits to every member of
\* F the payload of t (L: 05 00 11 EA 60, H: 03 00 00) and no other; inside the
\* lock the Timer that was armed before is cancelled, and at the end of the
\* lock a new Timer is armed for a whole window.
C8_TokenToPayload ==
    \A th \in Threads :
       /\ pc[th] \notin {"idle", "off"} => status[th] \in {"L", "H"}
       /\ \A i \in DOMAIN futs[th] :
             /\ futs[th][i].eui = ctrls[th][i]
             /\ futs[th][i].data = (IF status[th] = "L" THEN P_low ELSE P_high)
       /\ pc[th] \in {"new", "start"} => Armed = {}
       /\ pc[th] = "unlock" =>
             timer[di_timeout_timer] = [st |-> "armed", rem |-> Window]
       /\ pc[th] = "wait" => Len(futs[th]) = Len(ctrls[th])

\* the loop thread has finished the cycle of an 'L' over [d1, d2]
C8_Witness ==
    /\ CycleDone(LoopThread)
    /\ status[LoopThread] = "L"
    /\ ctrls[LoopThread] = <<"d1", "d2">>
    /\ futs[LoopThread][2].data = P_low

\* C9: a failed call touches no other call of the cycle: no exception leaves
\* the as_completed loop, every future keeps its place in the work queue
\* until it is run, every finished future can be recorded whatever the
\* others did, its record is its own outcome, and a finished cycle holds one
\* record for every member.
C9_FailureIsolated ==
    \A th \in Threads :
       /\ pc[th] = "raised" => futs[th] = <<>>
       /\ \A i \in DOMAIN futs[th] :
             /\ futs[th][i].st = "queued" => \E k \in DOMAIN workQ : workQ[k] = <<th, i>>
             /\ futs[th][i].rec = "success" => futs[th][i].st = "ack"
             /\ futs[th][i].rec = "failure" => futs[th][i].st = "error"
             /\ (pc[th] = "wait" /\ futs[th][i].st \in {"ack", "error"}
                    /\ futs[th][i].rec = "none") => ENABLED Record(th, i)
       /\ CycleDone(th) =>
             /\ Len(futs[th]) = Len(ctrls[th])
             /\ \A i \in DOMAIN futs[th] : futs[th][i].rec \in {"success", "failure"}

\* one worker: the call to d1 failed, the call to d2 ran after it and
\* succeeded, and both are recorded
C9_Witness ==
    \E th \in Threads :
       /\ MAX_WORKERS = 1
       /\ CycleDone(th)
       /\ ctrls[th] = <<"d1", "d2">>
       /\ futs[th][1].rec = "failure"
       /\ futs[th][2].rec = "success"

\* C10: a cycle whose read of list.csv is empty or raises makes no enqueue
\* call and leaves nothing behind: the thread holds no lock and owns no
\* future or work item, the deadman stays armed, and only threads that read
\* a non-empty list ever submit.
C10_EmptyOrFailedReadSkips ==
    /\ \A th \in Threads :
          /\ pc[th] \in {"skip", "raised"} =>
                /\ futs[th] = <<>>
                /\ lock # th
                /\ (Armed # {} \/ lock # NoThread)
          /\ pc[th] = "skip" => ctrls[th] = <<>>
          /\ pc[th] \in InCycle => ctrls[th] # <<>>
          /\ pc[th] \notin InCycle => futs[th] = <<>>
    /\ \A k \in DOMAIN workQ : pc[workQ[k][1]] \in InCycle

\* a cycle of the loop thread skipped for an empty list and a cycle of a
\* Timer thread ended by open() at the same time
C10_Witness ==
    /\ pc[LoopThread] = "skip"
    /\ \E t \in Timers : pc[t] = "raised"

\* calls that were submitted and have not finished
Outstanding(th) ==
    {i \in DOMAIN futs[th] : futs[th][i].st \in {"queued", "running"}}

C12_PoolSizedByCycle ==
    \A th \in Threads :
       pc[th] \in InCycle => MAX_WORKERS = Min(Len(ctrls[th]), WorkerCap)

\* C13: a dispatch cycle never blocks the ingestion path: the loop thread is
\* never waiting for the results of _enqueue calls while a message is
\* waiting to be handled.
C13_CycleNeverBlocksIngestion ==
    (inbox # <<>> /\ Outstanding(LoopThread) # {}) => pc[LoopThread] # "wait"

\* C14: _lock is held only across the cancel-and-rearm pair: a thread that
\* reads list.csv, skips, submits a call or waits for results does not hold
\* it, and neither does an idle thread.
C14_LockOnlyAroundRearm ==
    \A th \in Threads :
       lock = th <=> pc[th] \in {"cancel", "new", "start", "unlock"}

\* the loop thread waits for the results of its calls while an expired
\* Timer's thread is inside the lock
C14_Witness ==
    /\ pc[LoopThread] = "wait"
    /\ Outstanding(LoopThread) # {}
    /\ \E t \in Timers : lock = t /\ pc[t] = "new"

\* the message that on_message is about to take
Taken == Head(inbox)

\* on_message takes a message
Takes == pc[LoopThread] = "idle" /\ inbox # <<>> /\ inbox' = Tail(inbox)

\* an event of another device, an event that is not an uplink, a topic or a
\* payload that cannot be decoded, an object that is missing or short of
\* fields, a token that is neither L nor H
Dropped(m) ==
    \/ m.devEui # MASTER_EUI
    \/ m.eventType # "up"
    \/ m.parts < 6
    \/ ~m.json
    \/ ~m.hasObject
    \/ m.lenObj # 12
    \/ m.di1 \notin {"L", "H"}

\* a decoded uplink of the master whose object holds a token L or H
FromMasterWithToken(m) ==
    /\ m.parts >= 6 /\ m.json /\ m.eventType = "up" /\ m.hasObject
    /\ m.devEui = MASTER_EUI
    /\ m.di1 \in {"L", "H"}

\* the step of on_message that calls process_status(tok)
Calls_process_status(tok) ==
    /\ pc'[LoopThread] = "lock"
    /\ status'[LoopThread] = tok
    /\ owed' = owed + 1
    /\ \A t \in Timers : pc'[t] = pc[t] /\ status'[t] = status[t]

\* C15: a foreign, non-uplink, malformed or unrecognized event is dropped:
\* the step of on_message that takes it changes nothing but the inbox: no
\* Timer is cancelled or armed, no process_status call, cycle or _enqueue
\* call is started, and the handler returns to the loop.
C15_DroppedHasNoEffect ==
    [][(Takes /\ Dropped(Taken)) =>
          UNCHANGED <<last_status, lock, di_timeout_timer, timer, pc, status, ctrls,
                      futs, workQ, owed>>]_vars

\* on_message is about to take a dropped event while a Timer is running
\* and a Timer thread waits for its calls
C15_Witness ==
    /\ pc[LoopThread] = "idle"
    /\ inbox # <<>>
    /\ Dropped(Taken)
    /\ Taken.devEui = MASTER_EUI
    /\ \E t \in Armed : timer[t].rem < Window
    /\ \E t \in Timers : pc[t] = "wait"

\* C16 as stated: every event of the master with a token L or H is accepted
\* and calls process_status once with that token.
C16_MasterTokenAccepted ==
    [][(Takes /\ FromMasterWithToken(Taken)) => Calls_process_status(Taken.di1)]_vars

\* C16 amended: every uplink of the master whose object has the 12 fields of
\* a normal message and whose token is L or H is accepted and calls
\* process_status once with that token.
C16_NormalMasterTokenAccepted ==
    [][(Takes /\ FromMasterWithToken(Taken) /\ Taken.lenObj = 12) =>
          Calls_process_status(Taken.di1)]_vars

\* on_message has called process_status('H') and waits for the lock that an
\* expired Timer's thread holds
C16_Witness ==
    /\ pc[LoopThread] = "lock"
    /\ status[LoopThread] = "H"
    /\ \E t \in Timers : lock = t

\* C17: within a cycle, a member whose call is slow or runs into its deadline
\* delays neither the start nor the record of another member's call: no
\* call of the cycle is still queued when time has passed for the running
\* call to another member of the same cycle, and every finished call can be
\* recorded at once.
C17_SlowMemberDelaysNone ==
    \A th \in Threads : \A i \in DOMAIN futs[th] :
       /\ futs[th][i].st = "queued" =>
             \A j \in DOMAIN futs[th] :
                ~(/\ futs[th][j].eui # futs[th][i].eui
                  /\ futs[th][j].st = "running"
                  /\ futs[th][j].rem < CallTicks)
       /\ (pc[th] = "wait" /\ futs[th][i].st \in {"ack", "error"}
              /\ futs[th][i].rec = "none") => ENABLED Record(th, i)

\* the lists that list.csv can give
Readable == Files \ {Unreadable}

\* C18: a cycle targets exactly the members that its own read of list.csv
\* returned: whatever the file holds at the read (changed or unchanged since
\* the last cycle or since start-up), the cycle's list is read_controllers
\* of that content and nothing else, and the calls of the cycle go to the
\* entries of that list, in order.
C18_TargetsFreshRead ==
    \A th \in Threads :
       /\ pc[th] = "read" =>
             \A f \in Readable :
                /\ ENABLED (ReadFleet(th, f) /\ ctrls'[th] = read_controllers(f))
                /\ ~ENABLED (ReadFleet(th, f) /\ ctrls'[th] # read_controllers(f))
       /\ Len(futs[th]) <= Len(ctrls[th])
       /\ \A i \in DOMAIN futs[th] : futs[th][i].eui = ctrls[th][i]
       /\ pc[th] = "wait" => Len(futs[th]) = Len(ctrls[th])

\* two cycles in flight over different lists, one of them not the list of
\* start-up: the file changed between the two reads
C18_Witness ==
    /\ pc[LoopThread] = "wait"
    /\ ctrls[LoopThread] = <<"d1", "d2">>
    /\ controllers_list = <<"d1">>
    /\ \E t \in Timers : pc[t] = "wait" /\ ctrls[t] = <<"d1">>
    /\ \A th \in Threads : \A i \in DOMAIN futs[th] : futs[th][i].eui = ctrls[th][i]

\* the shutdown handler has run
Down == pc[LoopThread] = "exit"

\* C19: after the shutdown handler has run, whatever a Timer thread or the
\* loop thread was doing at that moment, no Timer is armed, no process_status
\* call goes on to read list.csv for a new cycle and no call is submitted to
\* the pool.
C19_ShutdownStopsTimerAndPool ==
    /\ [](Down => Armed = {})
    /\ [][Down => /\ \A th \in Threads : pc[th] = "read" => pc'[th] = "read"
                  /\ \A th \in Threads : Len(futs'[th]) <= Len(futs[th])]_vars

\* C20: dispatch cycles are not serialized against each other: a
\* process_status call is kept from the lock section by the holder of _lock
\* only, never by a cycle in flight, and past the lock section its read and
\* its submits wait for nothing; so a token that follows an expiry gives two
\* cycles in flight together (the state of C20_Witness).
C20_CyclesNotSerialized ==
    \A th \in Threads :
       /\ (pc[th] = "lock" /\ lock = NoThread) => ENABLED Acquire(th)
       /\ pc[th] = "read" => \A f \in Files : ENABLED ReadFleet(th, f)
       /\ pc[th] = "submit" => ENABLED Submit(th)

\* the deadman's cycle sent the high payload to d1 a tick ago and that call
\* is still running; the master's 'L' was handled at this instant (the Timer
\* it armed has its whole window left), its cycle sent the low payload to d1,
\* was answered and has recorded everything
C20_Witness ==
    \E t \in Timers :
       /\ timer[t].st = "fired"
       /\ pc[t] = "wait"
       /\ \E j \in DOMAIN futs[t] :
             /\ futs[t][j].eui = "d1"
             /\ futs[t][j].data = P_high
             /\ futs[t][j].st = "running"
             /\ futs[t][j].rem < CallTicks
       /\ status[LoopThread] = "L"
       /\ CycleDone(LoopThread)
       /\ \E i \in DOMAIN futs[LoopThread] :
             /\ futs[LoopThread][i].eui = "d1"
             /\ futs[LoopThread][i].data = P_low
             /\ futs[LoopThread][i].rec = "success"
       /\ timer[di_timeout_timer] = [st |-> "armed", rem |-> Window]

\* C21: every dispatch cycle that starts finishes: once a thread has begun to
\* submit, every call of the cycle gets its record and send_downlink_parallel
\* returns, also when the calls of another cycle use the pool.
C21_CycleFinishes ==
    \A th \in Threads :
       /\ (pc[th] \in InCycle) ~> CycleDone(th)
       /\ CycleDone(th) ~> (pc[th] = Idle(th))

\* two cycles of two calls each in flight on a pool of one worker: one call
\* is running, the other three wait in the queue
C21_Witness ==
    /\ MAX_WORKERS = 1
    /\ pc[LoopThread] = "wait"
    /\ \E t \in Timers : pc[t] = "wait"
    /\ Cardinality(Running) = 1
    /\ Len(workQ) = 3

\* C23 as stated: once a token has armed the first Timer, exactly one Timer
\* is armed in every state in which no thread is inside the lock section.
C23_ArmedOutsideLock ==
    (di_timeout_timer # NoTimer /\ lock = NoThread) => Cardinality(Armed) = 1

\* C23 amended: once a token has armed the first Timer and until the program
\* is shut down, exactly one Timer is armed in every state in which no thread
\* is inside the lock section or on its way into it (a process_status call
\* that has not taken _lock yet); an empty list, a read that raises and
\* failed calls do not change that.
C23_ArmedUnlessRearming ==
    (di_timeout_timer # NoTimer /\ lock = NoThread /\ ~Down
        /\ \A th \in Threads : pc[th] # "lock")
       => (Cardinality(Armed) = 1 /\ Armed = {di_timeout_timer})

\* an expired Timer's thread was ended by open(), a call of the loop
\* thread's cycle has failed, nobody is at the lock and the Timer is armed
C23_Witness ==
    /\ lock = NoThread
    /\ \A th \in Threads : pc[th] # "lock"
    /\ \E t \in Timers : pc[t] = "raised"
    /\ pc[LoopThread] = "wait"
    /\ \E i \in DOMAIN futs[LoopThread] : futs[LoopThread][i].st = "error"
    /\ Cardinality(Armed) = 1

MaxDays == 3      \* the days the service is followed for
MaxLate == 1      \* seconds sleep_until may wake up after its target

DaySeconds == 86400

DAILY_END_TIME == <<9, 10, 0>>

\* datetime.strptime(s, "%H:%M:%S").time(), as seconds into the day
TimeOfDay(hms) == hms[1] * 3600 + hms[2] * 60 + hms[3]

\* datetime.combine(now.date(), t)
Combine(now, t) == (now \div DaySeconds) * DaySeconds + t

next_daily_trigger_dt(now, trigger_time_str) ==
    LET candidate == Combine(now, TimeOfDay(trigger_time_str))
    IN IF now <= candidate THEN candidate ELSE candidate + DaySeconds

\* the times of day the service is started at
StartTimes == {0, TimeOfDay(DAILY_END_TIME), TimeOfDay(DAILY_END_TIME) + 1, DaySeconds - 1}

\* how long reading the log, writing the CSV and sending the mail take
Durations == {0, 1, DaySeconds - 2, DaySeconds - 1, DaySeconds}

\* the handler of NCNOHandler.py is not running
HandlerOff == Boot(FileNone)

InitReport ==
    /\ HandlerOff
    /\ MonitorOff
    /\ rnow \in StartTimes
    /\ rpc = "top"
    /\ trigger_dt = 0
    /\ generated = <<>>
    /\ rdur = 0

\* top of the loop of main: read the clock, compute the trigger
ComputeTrigger ==
    /\ rpc = "top"
    /\ rnow \div DaySeconds < MaxDays
    /\ trigger_dt' = next_daily_trigger_dt(rnow, DAILY_END_TIME)
    /\ rpc' = IF rnow < trigger_dt' THEN "sleep" ELSE "run"
    /\ UNCHANGED <<rnow, generated, rdur, handler, monitor>>

\* sleep_until returns at the first reading of the clock not before the target
sleep_until ==
    /\ rpc = "sleep"
    /\ \E late \in 0..MaxLate : rnow' = trigger_dt + late
    /\ rpc' = "run"
    /\ UNCHANGED <<trigger_dt, generated, rdur, handler, monitor>>

\* the report of the window that ends at the run: rows, CSV, mail
RunReport(d) ==
    /\ rpc = "run"
    /\ generated' = Append(generated, [trigger |-> trigger_dt, at |-> rnow])
    /\ rnow' = rnow + d
    /\ rdur' = d
    /\ rpc' = "pause"
    /\ UNCHANGED <<trigger_dt, handler, monitor>>

\* a loop that goes back to its top without the pause
PauseSkipped ==
    /\ rpc = "pause"
    /\ rpc' = "top"
    /\ UNCHANGED <<rnow, trigger_dt, generated, rdur, handler, monitor>>

\* time.sleep(1) at the end of the loop
Pause ==
    /\ rpc = "pause"
    /\ rnow' = rnow + 1
    /\ rpc' = "top"
    /\ UNCHANGED <<trigger_dt, generated, rdur, handler, monitor>>

NextReport ==
    \/ ComputeTrigger
    \/ sleep_until
    \/ \E d \in Durations : RunReport(d)
    \/ Pause

SpecReport == InitReport /\ [][NextReport]_vars

LastReport == generated[Len(generated)]

\* no trigger instant has two reports
NoTriggerTwice ==
    \A i, j \in DOMAIN generated :
        generated[i].trigger = generated[j].trigger => i = j

\* C22 (as stated): after a report for trigger instant T that took less than a
\* day, the next trigger is T plus one day, and T is never reported again.
C22_NextTriggerIsNextDay ==
    /\ [](NoTriggerTwice)
    /\ [][(rpc = "top" /\ generated # <<>> /\ rdur < DaySeconds)
            => trigger_dt' = LastReport.trigger + DaySeconds]_vars

\* C22 (amended): when the clock is next read at most one day after T, that is
\* when the wake-up lateness, the report and the one-second pause together stay
\* within a day, the next trigger is T plus one day; T is never reported again.
C22_NextTriggerWithinDay ==
    /\ [](NoTriggerTwice)
    /\ [][(rpc = "top" /\ generated # <<>> /\ rnow - LastReport.trigger <= DaySeconds)
            => trigger_dt' = LastReport.trigger + DaySeconds]_vars

\* the second report runs at its trigger, a day after the first, without a
\* sleep: the first report and the pause took the whole day
C22_Witness ==
    /\ rpc = "run"
    /\ Len(generated) = 1
    /\ rdur = DaySeconds - 1
    /\ rnow = trigger_dt
    /\ trigger_dt = LastReport.trigger + DaySeconds

\* ============================================================
\* monitor.py: the heartbeats of the slaves and the watchdog.
\* Time is in seconds since the monitor started.  Handling a message and a
\* pass of the watchdog take no time, but a pass is not atomic: the loop thread
\* may handle a message between two statements of it.

MaxBeats == 5      \* heartbeats handled
MaxPasses == 4     \* passes of the watchdog

HEARTBEAT_INTERVAL == 3600
HEARTBEAT_TOLERANCE == 300

\* HEARTBEAT_INTERVAL * 1.4
CHECK_INTERVAL == (HEARTBEAT_INTERVAL * 14) \div 10

Macs == {"D4:AD:20:B7:EA:E2", "D4:AD:20:B7:EA:E3"}

Never == -1

\* the time from one heartbeat of a device to its next
Intervals ==
    {HEARTBEAT_INTERVAL - HEARTBEAT_TOLERANCE - 1, HEARTBEAT_INTERVAL - HEARTBEAT_TOLERANCE,
     HEARTBEAT_INTERVAL + HEARTBEAT_TOLERANCE, HEARTBEAT_INTERVAL + HEARTBEAT_TOLERANCE + 1,
     2 * CHECK_INTERVAL}

\* when the first heartbeat of a device arrives
FirstTimes ==
    {0, 2 * CHECK_INTERVAL - (HEARTBEAT_INTERVAL * 3) \div 2,
     2 * CHECK_INTERVAL - (HEARTBEAT_INTERVAL * 3) \div 2 - 1}

\* a dict of Python: its items in insertion order
Keys(d) == {d[i][1] : i \in DOMAIN d}
Get(d, k) == d[CHOOSE i \in DOMAIN d : d[i][1] = k][2]
Put(d, k, v) ==
    IF k \in Keys(d)
    THEN [i \in DOMAIN d |-> IF d[i][1] = k THEN <<k, v>> ELSE d[i]]
    ELSE Append(d, <<k, v>>)

\* what parse_payload returns: a dict with or without "MAC", or the text
Heartbeat(mac) == [retain |-> FALSE, payload |-> [dict |-> TRUE, MAC |-> mac]]

OtherMsgs ==
    {[retain |-> TRUE, payload |-> [dict |-> TRUE, MAC |-> "D4:AD:20:B7:EA:E2"]],
     [retain |-> FALSE, payload |-> [dict |-> TRUE, MAC |-> "None"]],
     [retain |-> FALSE, payload |-> [dict |-> TRUE, MAC |-> ""]],
     [retain |-> FALSE, payload |-> [dict |-> FALSE, MAC |-> "None"]]}

classify(delta) ==
    IF delta < HEARTBEAT_INTERVAL - HEARTBEAT_TOLERANCE THEN "RESTART_CONFIRMED"
    ELSE IF delta > HEARTBEAT_INTERVAL + HEARTBEAT_TOLERANCE THEN "RESTART_OR_PACKET_LOSS"
    ELSE "OK"

\* the condition left as a comment above the one in use
BranchAnyShort(c1, c2) ==
    IF "RESTART_CONFIRMED" \in {c1, c2} THEN "Device Restart Confirmed"
    ELSE IF "RESTART_OR_PACKET_LOSS" \in {c1, c2} THEN "Restart OR Packet Loss"
    ELSE "OK"

\* the branch the if / elif / else of the handler takes
Branch(c1, c2) ==
    IF \/ c1 = "RESTART_CONFIRMED" /\ c2 = "RESTART_CONFIRMED"
       \/ c1 = "OK" /\ c2 = "RESTART_CONFIRMED"
       \/ c1 = "RESTART_CONFIRMED" /\ c2 = "OK"
    THEN "Device Restart Confirmed"
    ELSE IF "RESTART_OR_PACKET_LOSS" \in {c1, c2} THEN "Restart OR Packet Loss"
    ELSE "OK"

\* the branches that call send_email
send_email(branch) == branch = "Device Restart Confirmed"

\* a history that is never cut
TrimNever(h) == h

\* if len(hist) > 3: hist.pop(0)
Trim(h) == IF Len(h) > 3 THEN Tail(h) ELSE h

\* a reset that keeps the last interval
AfterAnomalyKeepsTwo(h) == <<h[2], h[3]>>

\* heartbeat_history[mac] = [t3]
AfterAnomaly(h) == <<h[3]>>

SetHistory(mac, h) ==
    heartbeat_history' =
        [m \in DOMAIN heartbeat_history \cup {mac} |-> IF m = mac THEN h ELSE heartbeat_history[m]]

Count(mac) ==
    fresh' = [m \in DOMAIN fresh \cup {mac} |->
                 IF m # mac THEN fresh[m]
                 ELSE IF mac \in DOMAIN fresh THEN Min(fresh[mac] + 1, 3) ELSE 1]

Ignore ==
    /\ lastEv' = NoEv
    /\ UNCHANGED <<heartbeat_history, heartbeat_last_seen, abn, twice, fresh>>

\* len(hist) < 3: the heartbeat is collected
Collect(mac, h) ==
    /\ SetHistory(mac, h)
    /\ lastEv' = [NoEv EXCEPT !.kind = "COLLECT", !.mac = mac, !.h = h]
    /\ Count(mac)
    /\ UNCHANGED <<abn, twice>>

\* len(hist) == 3: the two intervals are classified
Classify(mac, h) ==
    LET d1 == h[2] - h[1]
        d2 == h[3] - h[2]
        c1 == classify(d1)
        c2 == classify(d2)
        branch == Branch(c1, c2)
        bad == {<<mac, h[i], h[i + 1]>> : i \in {j \in 1..2 : classify(h[j + 1] - h[j]) # "OK"}}
    IN /\ lastEv' = [kind |-> "CLASSIFIED", mac |-> mac, verdict |-> branch, d1 |-> d1,
                     d2 |-> d2, h |-> h, email |-> send_email(branch)]
       /\ IF branch = "OK"
          THEN /\ SetHistory(mac, h)
               /\ Count(mac)
               /\ UNCHANGED <<abn, twice>>
          ELSE /\ SetHistory(mac, AfterAnomaly(h))
               /\ abn' = abn \cup bad
               /\ twice' = (twice \/ bad \cap abn # {})
               /\ fresh' = [m \in DOMAIN fresh \cup {mac} |-> IF m = mac THEN 0 ELSE fresh[m]]

handle_slave_restart_heartbeat(payload, now_ts) ==
    IF ~payload.dict                       \* payload.get raises, the except logs
    THEN Ignore
    ELSE IF payload.MAC \in {"None", ""}    \* if not mac: return
    THEN Ignore
    ELSE LET mac == payload.MAC
             h == Trim(Append(IF mac \in DOMAIN heartbeat_history
                              THEN heartbeat_history[mac] ELSE <<>>, now_ts))
         IN /\ heartbeat_last_seen' = Put(heartbeat_last_seen, mac, now_ts)
            /\ IF Len(h) = 3 THEN Classify(mac, h) ELSE Collect(mac, h)

\* on_message of main, for the topic of the heartbeats
monitor_on_message(msg, now_ts) ==
    IF msg.retain THEN Ignore ELSE handle_slave_restart_heartbeat(msg.payload, now_ts)

\* the heartbeat a device has due is delivered and handled; the device sends
\* its next one after the interval next, or never again
Beat(mac, next) ==
    /\ beats < MaxBeats
    /\ due[mac] # Never
    /\ due[mac] <= wnext
    /\ \A m \in Macs : due[m] # Never => due[mac] <= due[m]
    /\ mclock' = due[mac]
    /\ monitor_on_message(Heartbeat(mac), due[mac])
    /\ due' = [due EXCEPT ![mac] = IF next = Never THEN Never ELSE due[mac] + next]
    /\ beats' = beats + 1
    /\ UNCHANGED <<wpc, wnow, snapshot, wi, wnext, published, passes, handler, report>>

\* a retained message, or one that is no heartbeat with a MAC
Stray(msg) ==
    /\ lastEv # NoEv
    /\ monitor_on_message(msg, mclock)
    /\ UNCHANGED <<mclock, due, beats, wpc, wnow, snapshot, wi, wnext, published, passes,
                   handler, report>>

\* the threshold taken at one interval
SeriousTimeoutAtInterval(delta) == delta > HEARTBEAT_INTERVAL

\* gap > HEARTBEAT_INTERVAL * 1.5
SeriousTimeout(delta) == 2 * delta > 3 * HEARTBEAT_INTERVAL

\* time.sleep returns: now = time.time(), list(heartbeat_last_seen.items())
WatchdogWake ==
    /\ wpc = "sleep"
    /\ passes < MaxPasses
    /\ \A m \in Macs : due[m] # Never => wnext <= due[m]
    /\ mclock' = wnext
    /\ wnow' = wnext
    /\ snapshot' = heartbeat_last_seen
    /\ wi' = 1
    /\ published' = {}
    /\ wpc' = "scan"
    /\ UNCHANGED <<due, heartbeat_history, heartbeat_last_seen, wnext, lastEv, abn, twice,
                   fresh, beats, passes, handler, report>>

\* one round of the for loop
WatchdogVisit ==
    /\ wpc = "scan"
    /\ wi <= Len(snapshot)
    /\ LET mac == snapshot[wi][1]
           last_ts == snapshot[wi][2]
       IN published' = IF SeriousTimeout(wnow - last_ts)
                       THEN published \cup {mac} ELSE published
    /\ wi' = wi + 1
    /\ UNCHANGED <<mclock, due, heartbeat_history, heartbeat_last_seen, wpc, wnow, snapshot,
                   wnext, lastEv, abn, twice, fresh, beats, passes, handler, report>>

\* time.sleep(CHECK_INTERVAL)
WatchdogSleep ==
    /\ wpc = "scan"
    /\ wi > Len(snapshot)
    /\ wnext' = mclock + CHECK_INTERVAL
    /\ wpc' = "sleep"
    /\ passes' = passes + 1
    /\ UNCHANGED <<mclock, due, heartbeat_history, heartbeat_last_seen, wnow, snapshot, wi,
                   published, lastEv, abn, twice, fresh, beats, handler, report>>

InitMonitor ==
    /\ HandlerOff
    /\ ReportOff
    /\ mclock = 0
    /\ due \in [Macs -> FirstTimes \cup {Never}]
    /\ heartbeat_history = <<>>
    /\ heartbeat_last_seen = <<>>
    /\ wpc = "sleep"
    /\ wnow = 0
    /\ snapshot = <<>>
    /\ wi = 1
    /\ wnext = 0
    /\ published = {}
    /\ lastEv = NoEv
    /\ abn = {}
    /\ twice = FALSE
    /\ fresh = <<>>
    /\ beats = 0
    /\ passes = 0

NextMonitor ==
    \/ \E mac \in Macs : \E next \in Intervals \cup {Never} : Beat(mac, next)
    \/ \E msg \in OtherMsgs : Stray(msg)
    \/ WatchdogWake
    \/ WatchdogVisit
    \/ WatchdogSleep

SpecMonitor == InitMonitor /\ [][NextMonitor]_vars

\* ------------------------------------------------------------ C25
NonDecreasing(h) == \A i \in 1..(Len(h) - 1) : h[i] <= h[i + 1]

\* C25: after any sequence of heartbeats, heartbeat_history[mac] of every seen
\* mac holds one to three timestamps in non-decreasing order of arrival and
\* heartbeat_last_seen[mac] is the newest of them; a message without a MAC
\* changes neither map.
C25_HistoryOfOneToThree ==
    /\ [](/\ DOMAIN heartbeat_history = Keys(heartbeat_last_seen)
          /\ \A mac \in DOMAIN heartbeat_history :
                LET h == heartbeat_history[mac]
                IN /\ Len(h) \in 1..3
                   /\ NonDecreasing(h)
                   /\ Get(heartbeat_last_seen, mac) = h[Len(h)])
    /\ [][(\E msg \in OtherMsgs : ~msg.retain /\ Stray(msg))
            => UNCHANGED <<heartbeat_history, heartbeat_last_seen>>]_vars

\* a message without a MAC was handled after the fourth heartbeat of a device
\* had pushed its first out of the history
C25_Witness ==
    /\ lastEv = NoEv
    /\ beats = 4
    /\ \E mac \in Macs :
          /\ DOMAIN heartbeat_history = {mac}
          /\ Len(heartbeat_history[mac]) = 3

\* ------------------------------------------------------------ C26
Short(d) == d < HEARTBEAT_INTERVAL - HEARTBEAT_TOLERANCE
Long(d) == d > HEARTBEAT_INTERVAL + HEARTBEAT_TOLERANCE

\* C26: the classification of the last three timestamps is total and exclusive:
\* Device Restart Confirmed exactly when an interval is short and none is long,
\* Restart OR Packet Loss exactly when an interval is long, OK exactly when both
\* are within the tolerance; only Device Restart Confirmed sends an e-mail.
C26_ClassificationTotalExclusive ==
    lastEv.kind = "CLASSIFIED" =>
        LET d1 == lastEv.h[2] - lastEv.h[1]
            d2 == lastEv.h[3] - lastEv.h[2]
        IN /\ lastEv.d1 = d1 /\ lastEv.d2 = d2
           /\ lastEv.verdict \in {"Device Restart Confirmed", "Restart OR Packet Loss", "OK"}
           /\ lastEv.verdict = "Device Restart Confirmed"
                <=> ((Short(d1) \/ Short(d2)) /\ ~Long(d1) /\ ~Long(d2))
           /\ lastEv.verdict = "Restart OR Packet Loss" <=> (Long(d1) \/ Long(d2))
           /\ lastEv.verdict = "OK" <=> (~Short(d1) /\ ~Long(d1) /\ ~Short(d2) /\ ~Long(d2))
           /\ lastEv.email <=> lastEv.verdict = "Device Restart Confirmed"

\* a short interval followed by a long one: no e-mail
C26_Witness ==
    /\ lastEv.kind = "CLASSIFIED"
    /\ Short(lastEv.d1)
    /\ Long(lastEv.d2)
    /\ lastEv.verdict = "Restart OR Packet Loss"
    /\ ~lastEv.email

\* ------------------------------------------------------------ C27
Anomalous == lastEv.kind = "CLASSIFIED" /\ lastEv.verdict # "OK"

HadAnomaly(mac) == \E iv \in abn : iv[1] = mac

\* C27: after an anomaly classification the history of the mac is [t3], at
\* least two further heartbeats come before its next classification, and no
\* abnormal interval is in two anomaly reports; after an OK classification the
\* history keeps its three entries and slides by one on the next heartbeat,
\* which is classified again.
C27_ResetAfterAnomaly ==
    /\ [](/\ Anomalous => heartbeat_history[lastEv.mac] = <<lastEv.h[3]>>
          /\ (lastEv.kind = "CLASSIFIED" /\ lastEv.verdict = "OK")
                => heartbeat_history[lastEv.mac] = lastEv.h
          /\ ~twice)
    /\ [][\A mac \in Macs :
            (beats' = beats + 1 /\ lastEv'.mac = mac) =>
                /\ (lastEv'.kind = "CLASSIFIED" /\ HadAnomaly(mac)) => fresh[mac] >= 1
                /\ (mac \in DOMAIN heartbeat_history /\ Len(heartbeat_history[mac]) = 3)
                      => /\ lastEv'.kind = "CLASSIFIED"
                         /\ lastEv'.h = Append(Tail(heartbeat_history[mac]), mclock')]_vars

\* the second anomaly report of a device: its first interval begins where the
\* last interval of the report before ended
C27_Witness ==
    /\ Anomalous
    /\ \E iv \in abn : iv[1] = lastEv.mac /\ iv[3] = lastEv.h[1]
    /\ \E iv \in abn : iv[1] = lastEv.mac /\ iv[2] = lastEv.h[1]

\* ------------------------------------------------------------ C28
\* older than 1.5 x HEARTBEAT_INTERVAL
Overdue(now, last_ts) == 2 * (now - last_ts) > 3 * HEARTBEAT_INTERVAL

PassDone == wpc = "sleep" /\ passes >= 1

\* entries of heartbeat_last_seen are never removed
NeverForgotten == [][Keys(heartbeat_last_seen) \subseteq Keys(heartbeat_last_seen')]_vars

\* a device silent for the threshold and one more sleep of the watchdog is in
\* the publications of the last pass
SilentIsReported ==
    PassDone =>
        \A mac \in Keys(heartbeat_last_seen) :
            mclock - Get(heartbeat_last_seen, mac) > (3 * HEARTBEAT_INTERVAL) \div 2 + CHECK_INTERVAL
                => mac \in published

\* C28 (as stated): a pass publishes SERIOUS_TIMEOUT for exactly the seen macs
\* whose last heartbeat is older than 1.5 x HEARTBEAT_INTERVAL, again on every
\* later pass, no more once a new heartbeat of the mac is handled; a device
\* that stops for ever is reported.
C28_PublishesOverdue ==
    /\ [][published' # published /\ published' # {}
            => \A mac \in published' \ published :
                  Overdue(mclock', Get(heartbeat_last_seen', mac))]_vars
    /\ [](PassDone => published = {mac \in Keys(heartbeat_last_seen) :
                                      Overdue(wnow, Get(heartbeat_last_seen, mac))})
    /\ NeverForgotten
    /\ [](SilentIsReported)

\* C28 (amended): a pass publishes for exactly the macs whose entry in the list
\* it took of heartbeat_last_seen at its start is older than 1.5 x
\* HEARTBEAT_INTERVAL at the time it read then; the entries are never removed;
\* a device that stops for ever is reported.
C28_PublishesOverdueAtSnapshot ==
    /\ [][published' # published /\ published' # {}
            => \A mac \in published' \ published :
                  Overdue(wnow, Get(snapshot, mac))]_vars
    /\ [](PassDone => published = {mac \in Keys(snapshot) : Overdue(wnow, Get(snapshot, mac))})
    /\ [][wpc = "sleep" /\ wpc' = "scan"
            => snapshot' = heartbeat_last_seen /\ wnow' = mclock']_vars
    /\ NeverForgotten
    /\ [](SilentIsReported)

\* the second pass in a row that publishes for a device silent since the start,
\* and not for the other, last heard between 1 and 1.5 x HEARTBEAT_INTERVAL ago
C28_Witness ==
    /\ PassDone
    /\ passes = 4
    /\ \E mac \in Macs : \E other \in Macs :
          /\ published = {mac}
          /\ Keys(snapshot) = {mac, other}
          /\ Get(snapshot, mac) = 0
          /\ wnow - Get(snapshot, other) > HEARTBEAT_INTERVAL
====
